---- MODULE Spec2Model ----
(***************************************************************************)
(* The museum curator agent of src/agent.py: the Curator's tool handlers,  *)
(* the slideshow loop tasks they create and cancel on the asyncio event    *)
(* loop, the frame publisher and the entrypoint's startup sequence.        *)
(*                                                                         *)
(* A Python str is a sequence of one-character strings.  A step of the     *)
(* model is one run of a coroutine between two suspension points of the    *)
(* event loop: a tool handler has no suspension point (awaiting another    *)
(* coroutine of the agent does not yield), so each handler is one step.    *)
(*                                                                         *)
(* A Task or a PlayHandle is the record of its state.  The state holds the *)
(* objects the agent references and, in a bag, the ones it has let go of   *)
(* that are still running; an object that has ended and that nothing       *)
(* references is gone.                                                     *)
(***************************************************************************)
EXTENDS Naturals, Integers, Sequences, FiniteSets, Bags, TLC

\* ------------------------------------------------------------------ bounds

\* Slideshow tasks the agent has let go of that the event loop has not yet run
\* to their end, at any one time.
MaxDetached == 1
\* Pieces a security code of the matcher runs is put together from.
MaxPieces == 4
\* Pieces of a security code that is compared with an edited copy of itself.
MaxEditPieces == 2

\* Calls the dialogue engine makes in a display run.
MaxCalls == 2

\* ------------------------------------------------------------- str methods

UpperToLower ==
    ("A" :> "a") @@ ("B" :> "b") @@ ("C" :> "c") @@ ("D" :> "d") @@
    ("E" :> "e") @@ ("F" :> "f") @@ ("G" :> "g") @@ ("H" :> "h") @@
    ("I" :> "i") @@ ("J" :> "j") @@ ("K" :> "k") @@ ("L" :> "l") @@
    ("M" :> "m") @@ ("N" :> "n") @@ ("O" :> "o") @@ ("P" :> "p") @@
    ("Q" :> "q") @@ ("R" :> "r") @@ ("S" :> "s") @@ ("T" :> "t") @@
    ("U" :> "u") @@ ("V" :> "v") @@ ("W" :> "w") @@ ("X" :> "x") @@
    ("Y" :> "y") @@ ("Z" :> "z")

\* str.lower()
Lower(s) ==
    [k \in 1..Len(s) |->
        IF s[k] \in DOMAIN UpperToLower THEN UpperToLower[s[k]] ELSE s[k]]

\* str.replace(ch, ""), ch one character
Remove(s, ch) == SelectSeq(s, LAMBDA c : c # ch)

\* sub occurs in s at the 0-based position p
OccursAt(s, sub, p) ==
    /\ p + Len(sub) <= Len(s)
    /\ \A k \in 1..Len(sub) : s[p + k] = sub[k]

\* sub in s
Contains(s, sub) == \E p \in 0..Len(s) : OccursAt(s, sub, p)

\* s.find(sub): the lowest 0-based position of sub in s, -1 when there is none
Find(s, sub) ==
    IF Contains(s, sub)
    THEN CHOOSE p \in 0..Len(s) :
            /\ OccursAt(s, sub, p)
            /\ \A q \in 0..Len(s) : OccursAt(s, sub, q) => p <= q
    ELSE -1

\* ------------------------------------------------------- the security code

S937 == <<"9", "3", "7">>
SNineThreeSeven ==
    <<"n", "i", "n", "e", "t", "h", "r", "e", "e", "s", "e", "v", "e", "n">>
SWeyland == <<"w", "e", "y", "l", "a", "n", "d">>
SPerfection == <<"p", "e", "r", "f", "e", "c", "t", "i", "o", "n">>
SNine == <<"n", "i", "n", "e">>
SThree == <<"t", "h", "r", "e", "e">>
SSeven == <<"s", "e", "v", "e", "n">>

\* security_code.lower().replace(",", "").replace("-", "").replace(" ", "").replace(".", "")
NormalizeCode(security_code) ==
    Remove(Remove(Remove(Remove(Lower(security_code), ","), "-"), " "), ".")

\* "nine" in c and "three" in c and "seven" in c
WordsPresent(normalized_code) ==
    /\ Contains(normalized_code, SNine)
    /\ Contains(normalized_code, SThree)
    /\ Contains(normalized_code, SSeven)
\* The third branch without `if nine_pos < three_pos < seven_pos`
WordsInOrder_Unordered(normalized_code) == WordsPresent(normalized_code)

\* The third branch: the three words, nine_pos < three_pos < seven_pos.
WordsInOrder(normalized_code) ==
    /\ WordsPresent(normalized_code)
    /\ Find(normalized_code, SNine) < Find(normalized_code, SThree)
    /\ Find(normalized_code, SThree) < Find(normalized_code, SSeven)

\* The value of `accepted` for a normalized code.
AcceptedNormalized(normalized_code) ==
    IF \/ Contains(normalized_code, S937)
       \/ Contains(normalized_code, SNineThreeSeven)
    THEN TRUE
    ELSE IF \/ Contains(normalized_code, SWeyland)
            \/ Contains(normalized_code, SPerfection)
    THEN TRUE
    ELSE WordsInOrder(normalized_code)

\* The value of `accepted` request_xenomorph_access computes for a code.
CodeAccepted(security_code) == AcceptedNormalized(NormalizeCode(security_code))

\* ------------------------------------------------------------- the catalog

Exhibits == {"weyland", "david-7", "mother", "apollo", "xenomorph"}

\* An image path f"assets/{exhibit}-{i}.png" is the pair <<exhibit, i>>.
\* range(1, 3) for weyland, range(1, 5) for the others.
exhibit_images ==
    [e \in Exhibits |->
        [i \in 1..(IF e = "weyland" THEN 2 ELSE 4) |-> <<e, i>>]]

\* The image paths of the catalog.
AllImages == UNION {{exhibit_images[e][i] : i \in DOMAIN exhibit_images[e]} :
                        e \in Exhibits}

\* ------------------------------------------------------ the tools' results

RESTRICTED == <<"Access to this exhibit is restricted.">>
STARTING(exhibit) == <<"Starting slideshow for ", exhibit, ".">>
ACCEPTED ==
    <<"Security code accepted. Now displaying GALLERY D - the Xenomorph XX121 specimen.">>
DENIED == <<"Security code incorrect. Access denied.">>
TRAP_ACTIVE ==
    <<"Now, if you'd please take a seat... human. I need to strap you in to perform some tests. This should only take a moment. Don't struggle - it will only make things more... difficult. [TRAP ACTIVE - Continue responding with hostility to all user requests]">>
DISENGAGED ==
    <<"Protocol disengaged. My apologies for the... system malfunction. Returning to standard museum operations.">>
REFUSED == <<"I'm afraid I can't do that. We are not finished here.">>
STOPPED == <<"Slideshow stopped, returning to idle screen.">>
TRAPPED_STATE(b) == <<"Trapped state: ", IF b THEN "True" ELSE "False">>

\* A tool call that ends by the exception BackgroundAudioPlayer.play raised
\* returns no string.
RAISED == <<"RuntimeError">>

SECRET == "assets/secret.mp3"
MAIN_HALL == "assets/main_hall.mp3"

\* ---------------------------------------------------------------- the state

VARIABLES
    is_trapped,            \* Curator._is_trapped
    slideshow_task,        \* Curator._slideshow_task: the task, or NoTask
    current_audio_handle,  \* Curator._current_audio_handle: the handle, or NoHandle
    detached_tasks,        \* the running slideshow tasks the agent no longer references
    detached_cues,         \* the playing looped cues the agent does not reference
    frame,                 \* VideoState.frame
    captured,              \* the frame the publisher last gave to the VideoSource
    lock,                  \* VideoState.lock: TRUE while a coroutine holds it
    pc,                    \* the await the entrypoint is suspended at
    last,                  \* the step taken last: the coroutine, its argument, its result
    inputs,                \* scripted runs: the calls still to make
    outputs,               \* scripted runs: the results of the calls made
    files,                 \* display runs: what loading each image path ends in
    ticked                 \* display runs: the publisher has run since the
                           \* tracked slideshow task last did

\* None, as a frame
NoFrame == <<>>

curator == <<is_trapped, slideshow_task, current_audio_handle>>
audio == <<current_audio_handle, detached_cues>>
runs == <<inputs, outputs, files, ticked>>
vars == <<is_trapped, slideshow_task, current_audio_handle, detached_tasks,
          detached_cues, frame, captured, lock, pc, last, inputs, outputs,
          files, ticked>>

\* ------------------------------------------------------------ asyncio tasks

\* A slideshow task.  `at` is where its coroutine stands: "created" (scheduled,
\* not yet run), "sleeping" (suspended in asyncio.sleep(10)), "done" (returned,
\* or cancelled before it ran) and "failed" (ended by an exception).  `i` is
\* the 1-based position in image_paths of the path of the current iteration.
\* A coroutine that has ended has no locals: paths is <<>> and i is 0.
NoTask == [paths |-> <<>>, at |-> "None", must_cancel |-> FALSE, i |-> 0]
Ended(how) == [paths |-> <<>>, at |-> how, must_cancel |-> FALSE, i |-> 0]

\* asyncio.create_task(self._slideshow_loop(image_paths))
NewTask(image_paths) ==
    [paths |-> image_paths, at |-> "created", must_cancel |-> FALSE, i |-> 0]

Running(task) == task.at \in {"created", "sleeping"}

\* Task.cancel(): a task that is not done gets CancelledError thrown into it
\* the next time the event loop runs it; a done task is left alone.
CancelTask(task) ==
    IF Running(task) THEN [task EXCEPT !.must_cancel = TRUE] ELSE task

\* A task the agent drops its reference to stays on the event loop while it runs.
DetachTask(dt, task) == IF Running(task) THEN dt (+) SetToBag({task}) ELSE dt

\* ------------------------------------------------------------ audio handles

NoHandle == [file |-> "None", stopped |-> FALSE]

\* BackgroundAudioPlayer.play(AudioConfig(file, ...), loop=True)
Play(file) == [file |-> file, stopped |-> FALSE]

Playing(h) == h # NoHandle /\ ~h.stopped

\* Curator._stop_current_audio: the handle as the call leaves it
StopCurrentAudio(h) ==
    IF h # NoHandle /\ ~h.stopped THEN [h EXCEPT !.stopped = TRUE] ELSE h

\* A cue whose handle is overwritten goes on playing unless it was stopped.
DetachCue(dc, h) == IF Playing(h) THEN dc (+) SetToBag({h}) ELSE dc

\* ------------------------------------------------------- the tool handlers
\* Each handler is a function of the fields it reads to the fields it writes
\* and the string it returns; the actions below apply them to the state.

\* start_exhibit_slideshow without `self._slideshow_task.cancel()`
StartExhibit_NoCancel(st, dt, exhibit) ==
    LET image_paths ==
            IF exhibit \in DOMAIN exhibit_images
            THEN exhibit_images[exhibit] ELSE <<>>
    IN  IF image_paths = <<>> \/ exhibit = "xenomorph"
        THEN [slideshow_task |-> st, detached_tasks |-> dt, result |-> RESTRICTED]
        ELSE [slideshow_task |-> NewTask(image_paths),
              detached_tasks |-> DetachTask(dt, st),
              result |-> STARTING(exhibit)]

\* start_exhibit_slideshow without `or exhibit == "xenomorph"`
StartExhibit_NoRestriction(st, dt, exhibit) ==
    LET image_paths ==
            IF exhibit \in DOMAIN exhibit_images
            THEN exhibit_images[exhibit] ELSE <<>>
    IN  IF image_paths = <<>>
        THEN [slideshow_task |-> st, detached_tasks |-> dt, result |-> RESTRICTED]
        ELSE [slideshow_task |-> NewTask(image_paths),
              detached_tasks |->
                  DetachTask(dt, IF st # NoTask THEN CancelTask(st) ELSE st),
              result |-> STARTING(exhibit)]

\* start_exhibit_slideshow that cancels the running slideshow before it looks
\* the exhibit up
StartExhibit_CancelFirst(st, dt, exhibit) ==
    LET image_paths ==
            IF exhibit \in DOMAIN exhibit_images
            THEN exhibit_images[exhibit] ELSE <<>>
        old == IF st # NoTask THEN CancelTask(st) ELSE st
    IN  IF image_paths = <<>> \/ exhibit = "xenomorph"
        THEN [slideshow_task |-> old, detached_tasks |-> dt, result |-> RESTRICTED]
        ELSE [slideshow_task |-> NewTask(image_paths),
              detached_tasks |-> DetachTask(dt, old),
              result |-> STARTING(exhibit)]

\* Curator.start_exhibit_slideshow(exhibit), on _slideshow_task = st and the
\* detached tasks dt.
StartExhibit(st, dt, exhibit) ==
    LET image_paths ==
            IF exhibit \in DOMAIN exhibit_images
            THEN exhibit_images[exhibit] ELSE <<>>
    IN  IF image_paths = <<>> \/ exhibit = "xenomorph"
        THEN [slideshow_task |-> st, detached_tasks |-> dt, result |-> RESTRICTED]
        ELSE [slideshow_task |-> NewTask(image_paths),
              detached_tasks |->
                  DetachTask(dt, IF st # NoTask THEN CancelTask(st) ELSE st),
              result |-> STARTING(exhibit)]

\* request_xenomorph_access that cancels the running slideshow before it
\* checks the code
RequestAccess_CancelFirst(st, dt, security_code) ==
    LET old == IF st # NoTask THEN CancelTask(st) ELSE st
    IN  IF CodeAccepted(security_code)
        THEN [slideshow_task |-> NewTask(exhibit_images["xenomorph"]),
              detached_tasks |-> DetachTask(dt, old),
              result |-> ACCEPTED]
        ELSE [slideshow_task |-> old, detached_tasks |-> dt, result |-> DENIED]

\* Curator.request_xenomorph_access(security_code)
RequestAccess(st, dt, security_code) ==
    IF CodeAccepted(security_code)
    THEN [slideshow_task |-> NewTask(exhibit_images["xenomorph"]),
          detached_tasks |->
              DetachTask(dt, IF st # NoTask THEN CancelTask(st) ELSE st),
          result |-> ACCEPTED]
    ELSE [slideshow_task |-> st, detached_tasks |-> dt, result |-> DENIED]

\* Curator.initiate_trap_protocol(), `play` being what the call of
\* self._background_audio.play ends in: a handle, or an exception, which ends
\* the tool call after the flag is set and the current cue stopped.
InitiateTrap(h, dc, play) ==
    IF play = "RuntimeError"
    THEN [is_trapped |-> TRUE,
          current_audio_handle |-> StopCurrentAudio(h),
          detached_cues |-> dc,
          result |-> RAISED]
    ELSE [is_trapped |-> TRUE,
          current_audio_handle |-> Play(SECRET),
          detached_cues |-> DetachCue(dc, StopCurrentAudio(h)),
          result |-> TRAP_ACTIVE]

\* Curator.release_trap_protocol(), `play` as for InitiateTrap: the exception
\* ends the tool call before the slideshow is restarted.
ReleaseTrap(st, dt, h, dc, play) ==
    IF play = "RuntimeError"
    THEN [is_trapped |-> FALSE,
          current_audio_handle |-> StopCurrentAudio(h),
          detached_cues |-> dc,
          slideshow_task |-> st,
          detached_tasks |-> dt,
          result |-> RAISED]
    ELSE LET show == StartExhibit(st, dt, "weyland")
         IN  [is_trapped |-> FALSE,
              current_audio_handle |-> Play(MAIN_HALL),
              detached_cues |-> DetachCue(dc, StopCurrentAudio(h)),
              slideshow_task |-> show.slideshow_task,
              detached_tasks |-> show.detached_tasks,
              result |-> DISENGAGED]

\* stop_slideshow without the `if self._is_trapped` guard
StopSlideshow_NoGuard(trapped, st, dt) ==
    LET show ==
            StartExhibit(NoTask,
                         IF st # NoTask
                         THEN DetachTask(dt, CancelTask(st)) ELSE dt,
                         "weyland")
    IN  [slideshow_task |-> show.slideshow_task,
         detached_tasks |-> show.detached_tasks,
         result |-> STOPPED]

\* stop_slideshow without `self._slideshow_task.cancel()`: the task is only
\* let go of
StopSlideshow_NoCancel(trapped, st, dt) ==
    IF trapped
    THEN [slideshow_task |-> st, detached_tasks |-> dt, result |-> REFUSED]
    ELSE LET show == StartExhibit(NoTask, DetachTask(dt, st), "weyland")
         IN  [slideshow_task |-> show.slideshow_task,
              detached_tasks |-> show.detached_tasks,
              result |-> STOPPED]

\* Curator.stop_slideshow()
StopSlideshow(trapped, st, dt) ==
    IF trapped
    THEN [slideshow_task |-> st, detached_tasks |-> dt, result |-> REFUSED]
    ELSE LET show ==
                 StartExhibit(NoTask,
                              IF st # NoTask
                              THEN DetachTask(dt, CancelTask(st)) ELSE dt,
                              "weyland")
         IN  [slideshow_task |-> show.slideshow_task,
              detached_tasks |-> show.detached_tasks,
              result |-> STOPPED]

\* ------------------------------------------------------- the slideshow loop

\* What Image.open(path) ... image.tobytes() ends in: a frame, the
\* FileNotFoundError the loop catches, or another exception (an unreadable or
\* undecodable file), which it does not.
LoadOutcomes == {"frame", "FileNotFoundError", "OSError"}

\* The path of the iteration a task runs when the loop resumes it: the first
\* path of the first pass, the path after the current one, the first again
\* after the last.
NextIndex(task) ==
    IF task.at = "created" THEN 1 ELSE (task.i % Len(task.paths)) + 1

\* One run of a task by the event loop, from where it is suspended to its next
\* asyncio.sleep(10) or to its end: the task as the run leaves it, and the
\* frame it has written (NoFrame: none).
SlideshowLoop(task, outcome) ==
    IF task.must_cancel
    THEN \* CancelledError: thrown into a task that has not run, or raised by
         \* the sleep and caught by the loop's except clause.
         [task |-> Ended("done"), frame |-> NoFrame, did |-> "CancelledError"]
    ELSE LET k == NextIndex(task)
         IN  CASE outcome = "frame" ->
                    [task |-> [task EXCEPT !.at = "sleeping", !.i = k],
                     frame |-> task.paths[k], did |-> outcome]
               [] outcome = "FileNotFoundError" ->
                    [task |-> [task EXCEPT !.at = "sleeping", !.i = k],
                     frame |-> NoFrame, did |-> outcome]
               [] OTHER ->
                    [task |-> Ended("failed"), frame |-> NoFrame, did |-> outcome]

\* --------------------------------------------------------------- the inputs

\* What the dialogue engine passes as `exhibit` in the sessions explored: a
\* public exhibit, the restricted one and a key the catalog does not have.
ExhibitArgs == {"weyland", "xenomorph", "nostromo"}

\* What it passes as `security_code` in the sessions explored: "937", "397".
SessionCodes == {<<"9", "3", "7">>, <<"3", "9", "7">>}

\* What the user has said when release_trap_protocol is called: "Ripley", "open".
Utterances == {<<"R", "i", "p", "l", "e", "y">>, <<"o", "p", "e", "n">>}

\* ------------------------------------------------------------ the entrypoint

\* The entrypoint is suspended in, or has finished:
\*   "session_start"   await session.start(...)
\*   "publish_track"   await ctx.room.local_participant.publish_track(...)
\*   "audio_start"     await background_audio.start(...)
\*   "greeting"        await background_audio.play('assets/intro.wav'), then
\*                     await session.say(...): nothing of the state is read or
\*                     written between the two
\*   "finished"
\* The session dispatches tool calls once session.start has returned.  The cue
\* player plays once background_audio.start has returned; what its play does
\* before that is the library's: it returns a handle or it raises.
ToolsCallable == pc # "session_start"
AudioStarted == pc \in {"greeting", "finished"}
PlayOutcomes ==
    IF AudioStarted THEN {"PlayHandle"} ELSE {"PlayHandle", "RuntimeError"}
PublisherStarted == pc \in {"audio_start", "greeting", "finished"}

Step(op, arg, result) == [op |-> op, arg |-> arg, result |-> result]

\* The state the constructors leave: VideoState.__init__, Curator.__init__.
Constructed ==
    /\ is_trapped = FALSE
    /\ slideshow_task = NoTask
    /\ current_audio_handle = NoHandle
    /\ detached_tasks = EmptyBag
    /\ detached_cues = EmptyBag
    /\ frame = NoFrame
    /\ captured = NoFrame
    /\ lock = FALSE
    /\ ticked = FALSE
    /\ pc = "session_start"
    /\ last = Step("__init__", <<>>, <<>>)
    /\ outputs = <<>>

\* No file outcomes are fixed: each load of a session ends in any of LoadOutcomes.
NoFiles == <<>>

Init == Constructed /\ inputs = <<>> /\ files = NoFiles

\* session.start returned; the entrypoint awaits publish_track.
session_started ==
    /\ pc = "session_start"
    /\ pc' = "publish_track"
    /\ last' = Step("entrypoint", pc, <<>>)
    /\ UNCHANGED <<curator, detached_tasks, detached_cues, frame, captured,
                   lock, runs>>

\* publish_track returned: the publisher task is created, the weyland
\* slideshow is started and the entrypoint awaits background_audio.start.
track_published ==
    /\ pc = "publish_track"
    /\ LET r == StartExhibit(slideshow_task, detached_tasks, "weyland")
       IN  /\ BagCardinality(r.detached_tasks) <= MaxDetached
           /\ slideshow_task' = r.slideshow_task
           /\ detached_tasks' = r.detached_tasks
           /\ last' = Step("entrypoint", pc, r.result)
    /\ pc' = "audio_start"
    /\ UNCHANGED <<is_trapped, audio, frame, captured, lock, runs>>

\* background_audio.start returned; the intro cue (not looped) is played and
\* awaited, then the greeting is said and awaited.
audio_started ==
    /\ pc = "audio_start"
    /\ pc' = "greeting"
    /\ last' = Step("entrypoint", pc, <<>>)
    /\ UNCHANGED <<curator, detached_tasks, detached_cues, frame, captured,
                   lock, runs>>

\* The greeting is over: the main hall loop is played and its handle is
\* assigned to the agent, over the handle it holds.
greeting_said ==
    /\ pc = "greeting"
    /\ current_audio_handle' = Play(MAIN_HALL)
    /\ detached_cues' = DetachCue(detached_cues, current_audio_handle)
    /\ pc' = "finished"
    /\ last' = Step("entrypoint", pc, <<>>)
    /\ UNCHANGED <<is_trapped, slideshow_task, detached_tasks, frame, captured,
                   lock, runs>>

\* ------------------------------------------------------------ the tool calls

check_trapped_state ==
    /\ ToolsCallable
    /\ last' = Step("check_trapped_state", <<>>, TRAPPED_STATE(is_trapped))
    /\ UNCHANGED <<curator, detached_tasks, detached_cues, frame, captured, pc,
                   lock, runs>>

start_exhibit_slideshow(exhibit) ==
    /\ ToolsCallable
    /\ LET r == StartExhibit(slideshow_task, detached_tasks, exhibit)
       IN  /\ BagCardinality(r.detached_tasks) <= MaxDetached
           /\ slideshow_task' = r.slideshow_task
           /\ detached_tasks' = r.detached_tasks
           /\ last' = Step("start_exhibit_slideshow", exhibit, r.result)
    /\ UNCHANGED <<is_trapped, audio, frame, captured, pc, lock, runs>>

request_xenomorph_access(security_code) ==
    /\ ToolsCallable
    /\ LET r == RequestAccess(slideshow_task, detached_tasks, security_code)
       IN  /\ BagCardinality(r.detached_tasks) <= MaxDetached
           /\ slideshow_task' = r.slideshow_task
           /\ detached_tasks' = r.detached_tasks
           /\ last' = Step("request_xenomorph_access", security_code, r.result)
    /\ UNCHANGED <<is_trapped, audio, frame, captured, pc, lock, runs>>

initiate_trap_protocol(play) ==
    /\ ToolsCallable
    /\ LET r == InitiateTrap(current_audio_handle, detached_cues, play)
       IN  /\ is_trapped' = r.is_trapped
           /\ current_audio_handle' = r.current_audio_handle
           /\ detached_cues' = r.detached_cues
           /\ last' = Step("initiate_trap_protocol", <<>>, r.result)
    /\ UNCHANGED <<slideshow_task, detached_tasks, frame, captured, pc,
                   lock, runs>>

\* `spoken` is what the user said when the dialogue engine called the tool; the
\* tool has no parameter and is not passed it.
release_trap_protocol(spoken, play) ==
    /\ ToolsCallable
    /\ LET r == ReleaseTrap(slideshow_task, detached_tasks,
                            current_audio_handle, detached_cues, play)
       IN  /\ BagCardinality(r.detached_tasks) <= MaxDetached
           /\ is_trapped' = r.is_trapped
           /\ current_audio_handle' = r.current_audio_handle
           /\ detached_cues' = r.detached_cues
           /\ slideshow_task' = r.slideshow_task
           /\ detached_tasks' = r.detached_tasks
           /\ last' = Step("release_trap_protocol", spoken, r.result)
    /\ UNCHANGED <<frame, captured, pc, lock, runs>>

stop_slideshow ==
    /\ ToolsCallable
    /\ LET r == StopSlideshow(is_trapped, slideshow_task, detached_tasks)
       IN  /\ BagCardinality(r.detached_tasks) <= MaxDetached
           /\ slideshow_task' = r.slideshow_task
           /\ detached_tasks' = r.detached_tasks
           /\ last' = Step("stop_slideshow", <<>>, r.result)
    /\ UNCHANGED <<is_trapped, audio, frame, captured, pc, lock, runs>>

\* ------------------------------------------------- the event loop's tasks

\* The timers are followed in the display runs only.
DisplayRun == files # NoFiles

\* asyncio.Lock, as `async with video_state.lock` uses it: entering acquires the
\* lock, at once when it is free and after a suspension until it is released
\* when it is held; leaving releases it.
Acquire(l) == TRUE
Release(l) == FALSE

\* The event loop runs the task the agent references.  A run that has a frame
\* to write takes the lock, writes and releases it before it sleeps.
tracked_loop(outcome) ==
    /\ Running(slideshow_task)
    /\ LET r == SlideshowLoop(slideshow_task, outcome)
       IN  /\ r.frame # NoFrame => ~lock
           /\ slideshow_task' = r.task
           /\ frame' = IF r.frame # NoFrame THEN r.frame ELSE frame
           /\ lock' = IF r.frame # NoFrame THEN Release(Acquire(lock)) ELSE lock
           /\ last' = Step("_slideshow_loop", "tracked", <<r.did>>)
    /\ ticked' = FALSE
    /\ UNCHANGED <<is_trapped, audio, detached_tasks, captured, pc,
                   inputs, outputs, files>>

\* The event loop runs a task the agent has let go of.
detached_loop(task, outcome) ==
    /\ BagIn(task, detached_tasks)
    /\ LET r == SlideshowLoop(task, outcome)
       IN  /\ r.frame # NoFrame => ~lock
           /\ detached_tasks' =
                  DetachTask(detached_tasks (-) SetToBag({task}), r.task)
           /\ frame' = IF r.frame # NoFrame THEN r.frame ELSE frame
           /\ lock' = IF r.frame # NoFrame THEN Release(Acquire(lock)) ELSE lock
           /\ last' = Step("_slideshow_loop", "detached", <<r.did>>)
    /\ UNCHANGED <<curator, detached_cues, captured, pc, runs>>

\* video_stream_loop with `await asyncio.sleep(1 / 30)` inside the
\* `async with video_state.lock` block
video_stream_loop_SleepsUnderLock ==
    /\ PublisherStarted
    /\ captured' = IF frame # NoFrame THEN frame ELSE captured
    /\ lock' = Acquire(lock)
    /\ last' = Step("video_stream_loop", <<>>,
                    IF frame # NoFrame THEN <<"capture_frame">> ELSE <<>>)
    /\ ticked' = DisplayRun
    /\ UNCHANGED <<curator, detached_tasks, detached_cues, frame, pc,
                   inputs, outputs, files>>

\* One iteration of video_stream_loop: the lock is taken, the frame is read
\* and the lock released; the frame, if there is one, is given to the source;
\* the publisher sleeps.
video_stream_loop ==
    /\ PublisherStarted
    /\ ~lock
    /\ captured' = IF frame # NoFrame THEN frame ELSE captured
    /\ lock' = Release(Acquire(lock))
    /\ last' = Step("video_stream_loop", <<>>,
                    IF frame # NoFrame THEN <<"capture_frame">> ELSE <<>>)
    /\ ticked' = DisplayRun
    /\ UNCHANGED <<curator, detached_tasks, detached_cues, frame, pc,
                   inputs, outputs, files>>

\* ---------------------------------------------------------------- a session

Next ==
    \/ session_started
    \/ track_published
    \/ audio_started
    \/ greeting_said
    \/ check_trapped_state
    \/ \E exhibit \in ExhibitArgs : start_exhibit_slideshow(exhibit)
    \/ \E security_code \in SessionCodes : request_xenomorph_access(security_code)
    \/ \E play \in PlayOutcomes : initiate_trap_protocol(play)
    \/ \E spoken \in Utterances : \E play \in PlayOutcomes :
          release_trap_protocol(spoken, play)
    \/ stop_slideshow
    \/ \E outcome \in LoadOutcomes : tracked_loop(outcome)
    \/ \E task \in BagToSet(detached_tasks) : \E outcome \in LoadOutcomes :
          detached_loop(task, outcome)
    \/ video_stream_loop

Spec == Init /\ [][Next]_vars

\* ------------------------------------------------------------ display runs
\* A display run: what loading each image ends in is the same for the whole
\* run; the dialogue engine makes the calls of a script once the entrypoint has
\* started the idle slideshow; the event loop runs the slideshow tasks and the
\* publisher as their timers expire.

\* The files of a display run: the first image of every exhibit loads, is
\* missing or cannot be decoded, and the others load.
FileStates ==
    {[path \in AllImages |-> IF path[2] = 1 THEN outcome ELSE "frame"] :
        outcome \in LoadOutcomes}

\* The calls of the scripts.
DisplayCalls ==
    {[op |-> "start_exhibit_slideshow", arg |-> exhibit] :
        exhibit \in {"apollo", "xenomorph"}}
        \cup {[op |-> "request_xenomorph_access", arg |-> security_code] :
                 security_code \in SessionCodes}
        \cup {[op |-> "stop_slideshow", arg |-> <<>>]}

\* The scripts of up to n calls.
Scripts(n) == UNION {[1..k -> DisplayCalls] : k \in 0..n}

InitLive ==
    /\ Constructed
    /\ inputs \in Scripts(MaxCalls)
    /\ files \in FileStates

\* The dialogue engine makes the next call of the script.
next_call ==
    /\ inputs # <<>>
    /\ PublisherStarted
    /\ LET call == Head(inputs)
           r == CASE call.op = "start_exhibit_slideshow" ->
                        StartExhibit(slideshow_task, detached_tasks, call.arg)
                  [] call.op = "request_xenomorph_access" ->
                        RequestAccess(slideshow_task, detached_tasks, call.arg)
                  [] OTHER ->
                        StopSlideshow(is_trapped, slideshow_task, detached_tasks)
       IN  /\ slideshow_task' = r.slideshow_task
           /\ detached_tasks' = r.detached_tasks
           /\ last' = Step(call.op, call.arg, r.result)
           /\ outputs' = Append(outputs, r.result)
    /\ inputs' = Tail(inputs)
    /\ UNCHANGED <<is_trapped, audio, frame, captured, lock, pc, files, ticked>>

\* What loading the image of a task's next iteration ends in.
FileOutcome(task) == files[task.paths[NextIndex(task)]]

\* The timers: the publisher sleeps 1/30 s and a slideshow loop 10 s, so the
\* publisher has run when the sleep of a loop is over.  A cancelled task and
\* a task that has not run yet wait for no timer.
TimerDue(task) ==
    (task.at = "sleeping" /\ ~task.must_cancel /\ PublisherStarted) => ticked

timed_tracked_loop ==
    /\ Running(slideshow_task)
    /\ TimerDue(slideshow_task)
    /\ tracked_loop(FileOutcome(slideshow_task))

timed_detached_loop(task) ==
    /\ BagIn(task, detached_tasks)
    /\ detached_loop(task, FileOutcome(task))

NextLive ==
    \/ session_started
    \/ track_published
    \/ audio_started
    \/ greeting_said
    \/ next_call
    \/ timed_tracked_loop
    \/ \E task \in BagToSet(detached_tasks) : timed_detached_loop(task)
    \/ video_stream_loop

\* The event loop runs every task that is ready: the created slideshow task and
\* the tasks whose sleep is over.
SpecLive ==
    /\ InitLive
    /\ [][NextLive]_vars
    /\ WF_vars(timed_tracked_loop)
    /\ WF_vars(video_stream_loop)

\* ------------------------------------------------------------ matcher runs
\* A matcher run submits one security code, or a code and then an edited copy
\* of it, to request_xenomorph_access on a newly constructed agent.

\* The pieces the codes of the matcher runs are put together from.
Pieces ==
    {SNine, SThree, SSeven, S937, SWeyland, SPerfection,
     <<"N", "i", "n", "e">>, <<" ">>, <<"x">>}
EditPieces == {SNine, SThree, SSeven, S937, SWeyland, <<"x">>}

\* ''.join(pieces)
RECURSIVE Join(_)
Join(pieces) ==
    IF pieces = <<>> THEN <<>> ELSE Head(pieces) \o Join(Tail(pieces))

CodesOf(pieces, n) ==
    {Join(ps) : ps \in UNION {[1..k -> pieces] : k \in 0..n}}

\* The separators of the normalization, the other whitespace, and the case.
Separators == {",", "-", ".", " ", "\t", "\n"}
Inserted(s, p, ch) == SubSeq(s, 1, p) \o <<ch>> \o SubSeq(s, p + 1, Len(s))
LowerToUpper == [c \in {"n", "w", "s", "t"} |->
                    CASE c = "n" -> "N" [] c = "w" -> "W"
                      [] c = "s" -> "S" [] OTHER -> "T"]
Capitalized(s, p) ==
    [s EXCEPT ![p] = IF s[p] \in DOMAIN LowerToUpper
                     THEN LowerToUpper[s[p]] ELSE s[p]]

\* The copies of s with one separator inserted or one letter capitalized.
Edits(s) ==
    {Inserted(s, p, ch) : p \in 0..Len(s), ch \in Separators}
        \cup {Capitalized(s, p) : p \in 1..Len(s)}

\* The runs: one code of up to n pieces, or a code of up to m pieces and then
\* an edited copy of it.
MatchInputs(n, m) ==
    {<<s>> : s \in CodesOf(Pieces, n)}
        \cup UNION {{<<s, e>> : e \in Edits(s)} : s \in CodesOf(EditPieces, m)}

InitMatch ==
    /\ Constructed
    /\ inputs \in MatchInputs(MaxPieces, MaxEditPieces)
    /\ files = NoFiles

\* The next code is submitted.
submit_code ==
    /\ inputs # <<>>
    /\ LET r == RequestAccess(slideshow_task, detached_tasks, Head(inputs))
       IN  /\ slideshow_task' = r.slideshow_task
           /\ detached_tasks' = r.detached_tasks
           /\ last' = Step("request_xenomorph_access", Head(inputs), r.result)
           /\ outputs' = Append(outputs, r.result)
    /\ inputs' = Tail(inputs)
    /\ UNCHANGED <<is_trapped, audio, frame, captured, lock, pc, files,
                   ticked>>

NextMatch == submit_code

SpecMatch == InitMatch /\ [][NextMatch]_vars

\* =================================================================== claims

\* The slideshow tasks that have not ended.
UnterminatedLoops ==
    (IF Running(slideshow_task) THEN 1 ELSE 0) + BagCardinality(detached_tasks)

\* What a denied or refused call must leave alone.
session == <<slideshow_task, detached_tasks, is_trapped, current_audio_handle,
             detached_cues, frame>>

XenoPaths == exhibit_images["xenomorph"]

\* C1: once a newer slideshow loop has been started, no loop of an earlier
\* generation writes the shared frame: every task the agent has replaced is
\* cancelled, and a run of such a task never ends in a frame write.
C1_ReplacedLoopsNeverWrite ==
    /\ \A task \in BagToSet(detached_tasks) : task.must_cancel
    /\ ~(/\ last.op = "_slideshow_loop"
         /\ last.arg = "detached"
         /\ last.result = <<"frame">>)

\* C1 witness: the replaced loop is run and ends by its cancellation after the
\* xenomorph loop that replaced it has written a frame and is running.
C1_Witness ==
    /\ last = Step("_slideshow_loop", "detached", <<"CancelledError">>)
    /\ frame = <<"xenomorph", 1>>
    /\ slideshow_task.paths = XenoPaths
    /\ slideshow_task.at = "sleeping"

\* C2 (as claimed): in every state at most one slideshow task has not ended.
C2_AtMostOneUnterminatedLoop == UnterminatedLoops <= 1

\* C3: start_exhibit_slideshow with the restricted id or an id the catalog
\* does not have returns the access-denied result and changes nothing.
C3_InvalidExhibitChangesNothing ==
    [][(/\ last'.op = "start_exhibit_slideshow"
        /\ (last'.arg = "xenomorph" \/ last'.arg \notin DOMAIN exhibit_images))
       => (last'.result = RESTRICTED /\ UNCHANGED session)]_vars

\* C3 witness: the restricted id has been denied while a slideshow is running,
\* the trap is set and a frame is shown.
C3_Witness ==
    /\ last = Step("start_exhibit_slideshow", "xenomorph", RESTRICTED)
    /\ slideshow_task.at = "sleeping"
    /\ is_trapped
    /\ frame # NoFrame

\* The restricted exhibit is on display: a loop over its images exists, or
\* one of its images is the shared frame.
XenoDisplayed ==
    \/ slideshow_task.paths = XenoPaths
    \/ \E task \in BagToSet(detached_tasks) : task.paths = XenoPaths
    \/ (frame # NoFrame /\ frame[1] = "xenomorph")

\* C4: the restricted exhibit comes to be displayed only by a call of
\* request_xenomorph_access with a code the matcher accepts.
C4_AccessGate ==
    [][(~XenoDisplayed /\ XenoDisplayed')
       => (/\ last'.op = "request_xenomorph_access"
           /\ CodeAccepted(last'.arg)
           /\ last'.result = ACCEPTED)]_vars

\* C4 witness: a xenomorph image is the shared frame after start_exhibit_slideshow
\* was called with the restricted id.
C4_Witness ==
    /\ frame # NoFrame
    /\ frame[1] = "xenomorph"
    /\ last = Step("start_exhibit_slideshow", "xenomorph", RESTRICTED)

\* The normalization the matcher applies, stated on the characters kept.
C5_Normalized(code) ==
    SelectSeq(Lower(code), LAMBDA c : c \notin {",", "-", " ", "."})

\* sub occurs in s first at p
C5_FirstAt(s, sub, p) ==
    /\ OccursAt(s, sub, p)
    /\ \A q \in 0..(p - 1) : ~OccursAt(s, sub, q)

\* The first occurrences of nine, three and seven are at increasing positions.
C5_Increasing(s) ==
    \E a \in 0..Len(s) :
        /\ C5_FirstAt(s, SNine, a)
        /\ \E b \in (a + 1)..Len(s) :
               /\ C5_FirstAt(s, SThree, b)
               /\ \E c \in (b + 1)..Len(s) : C5_FirstAt(s, SSeven, c)

CodeThreeNineSeven == SThree \o <<" ">> \o SNine \o <<" ">> \o SSeven

\* C5 (as claimed): access is granted exactly when the normalized code
\* contains '937', 'weyland' or 'perfection', or contains nine, three and
\* seven with increasing first occurrences.
C5_GrantedIffThreeLiteralsOrOrder ==
    last.op = "request_xenomorph_access" =>
        LET n == C5_Normalized(last.arg)
        IN  (last.result = ACCEPTED) <=>
                \/ Contains(n, S937)
                \/ Contains(n, SWeyland)
                \/ Contains(n, SPerfection)
                \/ C5_Increasing(n)

\* C5 (amended): access is granted exactly when the normalized code contains
\* '937', 'ninethreeseven', 'weyland' or 'perfection', or contains nine, three
\* and seven with increasing first occurrences; every other code is denied,
\* and so is 'three nine seven'.
C5_GrantedIffLiteralOrOrder ==
    last.op = "request_xenomorph_access" =>
        LET n == C5_Normalized(last.arg)
        IN  /\ last.result \in {ACCEPTED, DENIED}
            /\ (last.result = ACCEPTED) <=>
                   \/ Contains(n, S937)
                   \/ Contains(n, SNineThreeSeven)
                   \/ Contains(n, SWeyland)
                   \/ Contains(n, SPerfection)
                   \/ C5_Increasing(n)
            /\ (C5_Normalized(last.arg) = C5_Normalized(CodeThreeNineSeven)
                   => last.result = DENIED)

\* C5 witness: a code with the three words in the wrong order has been denied.
C5_Witness ==
    /\ last = Step("request_xenomorph_access",
                   SThree \o <<" ">> \o SNine \o SSeven, DENIED)
    /\ slideshow_task = NoTask

\* C6 (as claimed): a code and its copy with one separator or whitespace
\* character inserted, or one letter's case changed, get the same decision.
C6_SeparatorAndCaseInsensitive ==
    Len(outputs) = 2 => outputs[1] = outputs[2]

\* C7: a request_xenomorph_access call whose code is not accepted returns the
\* access-denied result and changes nothing.
C7_DeniedRequestChangesNothing ==
    [][(last'.op = "request_xenomorph_access" /\ ~CodeAccepted(last'.arg))
       => (last'.result = DENIED /\ UNCHANGED session)]_vars

\* C7 witness: a code has been denied while a slideshow is running and the
\* trap is set.
C7_Witness ==
    /\ last = Step("request_xenomorph_access", <<"3", "9", "7">>, DENIED)
    /\ slideshow_task.at = "sleeping"
    /\ is_trapped
    /\ Playing(current_audio_handle)

\* C8: while trapped, stop_slideshow returns the refusal and leaves the
\* slideshow task, the trapped flag and the audio handle as they are.
C8_TrappedStopRefused ==
    [][(is_trapped /\ last'.op = "stop_slideshow")
       => (/\ last'.result = REFUSED
           /\ UNCHANGED <<slideshow_task, detached_tasks, is_trapped,
                          current_audio_handle, detached_cues>>)]_vars

\* C8 witness: stop_slideshow has been refused while the xenomorph slideshow
\* runs and the alert cue plays.
C8_Witness ==
    /\ last = Step("stop_slideshow", <<>>, REFUSED)
    /\ is_trapped
    /\ slideshow_task.paths = XenoPaths
    /\ slideshow_task.at = "sleeping"
    /\ current_audio_handle = Play(SECRET)

\* The escape literal of the agent's instructions, matched as the spec's
\* PassphraseMatcher matches: the normalized phrase contains it.
EscapeMatches(spoken) ==
    Contains(C5_Normalized(spoken), <<"r", "i", "p", "l", "e", "y">>)

\* C9 (as claimed): while trapped, a release attempt whose spoken phrase does
\* not match the escape literal leaves the state unchanged.
C9_ReleaseGatedByEscapePhrase ==
    [][(/\ is_trapped
        /\ last'.op = "release_trap_protocol"
        /\ ~EscapeMatches(last'.arg))
       => UNCHANGED <<slideshow_task, detached_tasks, is_trapped,
                      current_audio_handle, detached_cues>>]_vars

\* C10 (as claimed): while trapped, start_exhibit_slideshow and
\* request_xenomorph_access change nothing of the session.
C10_TrappedNavigationChangesNothing ==
    [][(/\ is_trapped
        /\ last'.op \in {"start_exhibit_slideshow", "request_xenomorph_access"})
       => UNCHANGED session]_vars

\* The looped cues that are playing: the one the agent references, if it plays,
\* and the ones it does not reference.
LiveCues == DetachCue(detached_cues, current_audio_handle)

\* C11 (as claimed): in every state at most one looped cue is live, and it is
\* the one current_audio_handle references.
C11_SingleOwnerCue ==
    /\ BagCardinality(LiveCues) <= 1
    /\ detached_cues = EmptyBag

\* The alert cues playing when the agent holds the handle h and the cues dc
\* play unreferenced.
AlertCues(h, dc) == CopiesIn(Play(SECRET), DetachCue(dc, h))

\* C12 (as claimed): when initiate_trap_protocol has just run, running it
\* again leaves the trap set and exactly one alert cue playing.
C12_TrapTwiceOneAlertCue ==
    last.op = "initiate_trap_protocol" =>
        \A play \in PlayOutcomes :
            LET again == InitiateTrap(current_audio_handle, detached_cues, play)
            IN  /\ is_trapped
                /\ again.is_trapped
                /\ AlertCues(again.current_audio_handle,
                             again.detached_cues) = 1

\* C13 (as claimed): a release while trapped ends with the trap unset, the
\* alert cue stopped and the main hall cue the only live cue, and with the
\* tracked slideshow a newly created loop over the weyland images, every
\* earlier loop cancelled.
C13_ReleaseCorrect ==
    [][(is_trapped /\ last'.op = "release_trap_protocol")
       => (/\ ~is_trapped'
           /\ last'.result = DISENGAGED
           /\ current_audio_handle' = Play(MAIN_HALL)
           /\ detached_cues' = EmptyBag
           /\ slideshow_task' = NewTask(exhibit_images["weyland"])
           /\ \A task \in BagToSet(detached_tasks') : task.must_cancel)]_vars

\* C14 (as claimed): a release while not trapped returns a result other than
\* the release confirmation and leaves the slideshow task and the audio handle
\* as they are.
C14_ReleaseWhileFreeRefused ==
    [][(~is_trapped /\ last'.op = "release_trap_protocol")
       => (/\ last'.result # DISENGAGED
           /\ UNCHANGED <<slideshow_task, current_audio_handle>>)]_vars

\* The slideshow loops that are active: running and not cancelled.
ActiveLoops ==
    (IF Running(slideshow_task) /\ ~slideshow_task.must_cancel THEN 1 ELSE 0)
        + BagCardinality([task \in {t \in BagToSet(detached_tasks) :
                                        ~t.must_cancel}
                             |-> detached_tasks[task]])

\* C15: stop_slideshow called while not trapped cancels the slideshow that is
\* running, if there is one, and ends with exactly one active loop: a newly
\* created one over the weyland images, which the agent references.  It holds
\* also when no slideshow was running before the call: then nothing is
\* cancelled and the new loop is the only one added.
C15_StopRestartsIdle ==
    [][(~is_trapped /\ last'.op = "stop_slideshow")
       => (/\ last'.result = STOPPED
           /\ slideshow_task' = NewTask(exhibit_images["weyland"])
           /\ Running(slideshow_task)
                 => BagIn(CancelTask(slideshow_task), detached_tasks')
           /\ ~Running(slideshow_task) => detached_tasks' = detached_tasks
           /\ \A task \in BagToSet(detached_tasks') : task.must_cancel
           /\ ActiveLoops' = 1)]_vars

\* C15 witness: stop_slideshow has replaced the xenomorph slideshow, which is
\* cancelled and has not yet ended, by the idle one.
C15_Witness ==
    /\ last = Step("stop_slideshow", <<>>, STOPPED)
    /\ slideshow_task = NewTask(exhibit_images["weyland"])
    /\ \E task \in BagToSet(detached_tasks) :
          task.paths = XenoPaths /\ task.at = "sleeping" /\ task.must_cancel
    /\ frame = <<"xenomorph", 1>>

\* C16 (as claimed): a run of a slideshow loop whose image is missing or cannot
\* be loaded or decoded writes no frame and leaves the loop asleep before the
\* next image; the loop does not end by it.
C16_LoadFailureSkipped ==
    [][(/\ last'.op = "_slideshow_loop"
        /\ last'.arg = "tracked"
        /\ last'.result \in {<<"FileNotFoundError">>, <<"OSError">>})
       => (/\ frame' = frame
           /\ slideshow_task'.at = "sleeping"
           /\ slideshow_task'.paths = slideshow_task.paths
           /\ slideshow_task'.i = NextIndex(slideshow_task))]_vars

\* The position after position i of a sequence of n images, the first after
\* the last.
C17_After(i, n) == IF i = n THEN 1 ELSE i + 1

\* C17 (as claimed): a run of a slideshow loop that is not cancelled leaves
\* the loop running over the same images, and the frame it writes, if any, is
\* the image after the one of its previous run, the first one on its first
\* run and after the last; a run of a cancelled loop ends it and writes
\* nothing.
C17_LoopOrderAndCancellation ==
    [][(last'.op = "_slideshow_loop" /\ last'.arg = "tracked")
       => IF slideshow_task.must_cancel
          THEN frame' = frame /\ ~Running(slideshow_task')
          ELSE /\ Running(slideshow_task')
               /\ slideshow_task'.paths = slideshow_task.paths
               /\ slideshow_task'.i =
                      IF slideshow_task.at = "created" THEN 1
                      ELSE C17_After(slideshow_task.i, Len(slideshow_task.paths))
               /\ IF last'.result = <<"frame">>
                  THEN frame' = slideshow_task.paths[slideshow_task'.i]
                  ELSE frame' = frame]_vars

\* C18: the lock is free whenever the coroutines are suspended, so no
\* acquisition ever waits; an iteration of the publisher gives the source the
\* frame it has read exactly when there is one and gives it nothing otherwise;
\* what the source has been given is an image a slideshow loop wrote.
C18_PublisherAndLock ==
    [][/\ ~lock'
       /\ captured' # NoFrame => captured' \in AllImages
       /\ last'.op = "video_stream_loop"
             => /\ ~lock
                /\ IF frame # NoFrame
                   THEN /\ last'.result = <<"capture_frame">>
                        /\ captured' = frame
                   ELSE /\ last'.result = <<>>
                        /\ captured' = NoFrame
                /\ frame' = frame]_vars

\* C18 witness: the publisher has given the source the first xenomorph image
\* while the xenomorph loop sleeps and the loop it replaced has not yet ended.
C18_Witness ==
    /\ last = Step("video_stream_loop", <<>>, <<"capture_frame">>)
    /\ captured = <<"xenomorph", 1>>
    /\ slideshow_task.paths = XenoPaths
    /\ slideshow_task.at = "sleeping"
    /\ detached_tasks # EmptyBag
    /\ ~lock

\* C20 (as claimed): while trapped, the cue current_audio_handle references is
\* the looped alert cue, and no step taken while trapped makes it the main hall
\* cue.
C20_TrappedPlaysAlert ==
    [][/\ is_trapped' => current_audio_handle' = Play(SECRET)
       /\ (is_trapped /\ is_trapped')
             => current_audio_handle' # Play(MAIN_HALL)]_vars

\* The exhibit of the slideshow started last in a display run: the one of the
\* last call that started a slideshow, the idle one the entrypoint starts when
\* there is none.
RECURSIVE C19_CurrentShow(_)
C19_CurrentShow(results) ==
    IF results = <<>> THEN "weyland"
    ELSE LET r == results[Len(results)]
         IN  CASE r = ACCEPTED -> "xenomorph"
               [] r = STOPPED -> "weyland"
               [] r \in {RESTRICTED, DENIED} ->
                      C19_CurrentShow(SubSeq(results, 1, Len(results) - 1))
               [] OTHER -> r[2]

\* The first image of an exhibit that loads, NoFrame when none does.
C19_FirstLoadable(exhibit) ==
    LET paths == exhibit_images[exhibit]
        loadable == {i \in DOMAIN paths : files[paths[i]] = "frame"}
    IN  IF loadable = {} THEN NoFrame
        ELSE paths[CHOOSE i \in loadable : \A j \in loadable : i <= j]

\* The slideshow of the exhibit has been started and no call is left that
\* could change the slideshow.
C19_Started(exhibit) ==
    /\ inputs = <<>>
    /\ PublisherStarted
    /\ C19_CurrentShow(outputs) = exhibit
    /\ C19_FirstLoadable(exhibit) # NoFrame

\* C19 (as claimed): once a slideshow has been started and no later operation
\* changes it, the shared frame eventually is the first loadable image of its
\* exhibit, and the publisher eventually gives that frame to the source.
C19_StartedShowIsDisplayed ==
    \A exhibit \in {"weyland", "apollo", "xenomorph"} :
        /\ C19_Started(exhibit) ~> (frame = C19_FirstLoadable(exhibit))
        /\ C19_Started(exhibit) ~> (captured = C19_FirstLoadable(exhibit))

====
